---- MODULE Spec2Model ----
(***************************************************************************)
(* Model of the task manager in src/task.py/exersiceAI.py: the Task        *)
(* entity, the TaskManager collection with its id rule, the JSON and CSV   *)
(* codecs, and the two front ends (interactive menu and one-shot CLI).     *)
(*                                                                         *)
(* Representation of Python values:                                        *)
(*   - None is the string None below; "" is the empty Python string;       *)
(*   - the Ukrainian literals of the source (status and priority labels,   *)
(*     CSV header) are written transliterated;                             *)
(*   - titles, priorities, due dates and formats are strings;              *)
(*   - a tag, and the joined tag cell of a CSV row, is a sequence of       *)
(*     one-character strings, so that join, split and strip are computed;  *)
(*   - created_at is the clock reading (in seconds) that strftime formats; *)
(*   - a dict is a function whose DOMAIN is the set of keys present;       *)
(*   - a file is [kind, data]: kind "none" (does not exist), "json" (text  *)
(*     written by json.dump, data = the list of dicts) or "csv" (any other *)
(*     text, data = the rows csv.reader yields; the row ReadErr stands for *)
(*     the point where the reader raises).                                 *)
(***************************************************************************)
EXTENDS Integers, Sequences, FiniteSets, TLC

VARIABLES tasks, files, now, call, ret, raised, opened, lastAdd, freed,
          written, nops, pc, argv, intr

vars == <<tasks, files, now, call, ret, raised, opened, lastAdd, freed,
          written, nops, pc, argv, intr>>

cliVars == <<pc, argv, intr>>

(* ---------------------------- bounds ----------------------------------- *)

MaxOps == 5

MaxClock == 1

(* ---------------------------- values ----------------------------------- *)

None == "<None>"

filename == "tasks.json"

ExportPath == "export.dat"

BadPath == "missing_dir/export.dat"

StatusDone == "Vykonano"

StatusActive == "Aktyvno"

High == "vysokyi"

Medium == "serednii"

Low == "nyzkyi"

ReadErr == <<"<reader raises>">>

NoFile == [kind |-> "none", data |-> <<>>]

EmptyFile == [kind |-> "csv", data |-> <<>>]

Truthy(s) == s # None /\ s # ""

Max(S) == CHOOSE m \in S : \A x \in S : x <= m

Ids(ts) == {ts[i].id : i \in 1..Len(ts)}

lower(format) ==
    CASE format = "JSON" -> "json"
      [] format = "CSV" -> "csv"
      [] format = "XML" -> "xml"
      [] OTHER -> format

(* ------------------------------ Task ----------------------------------- *)

Task(title, priority, due_date, clock) ==
    [id |-> 0, title |-> title, completed |-> FALSE, created_at |-> clock,
     priority |-> priority, due_date |-> due_date, tags |-> <<>>]

mark_completed_toggle(t) == [t EXCEPT !.completed = ~@]

mark_completed(t) == [t EXCEPT !.completed = TRUE]

add_tag(t, tag) ==
    IF Len(tag) > 0 /\ ~ \E i \in 1..Len(t.tags) : t.tags[i] = tag
    THEN [t EXCEPT !.tags = Append(@, tag)]
    ELSE t

to_dict(t) ==
    LET task_dict == [id |-> t.id, title |-> t.title, completed |-> t.completed,
                      created_at |-> t.created_at, tags |-> t.tags]
        withPriority == IF Truthy(t.priority)
                        THEN task_dict @@ [priority |-> t.priority]
                        ELSE task_dict
    IN IF Truthy(t.due_date)
       THEN withPriority @@ [due_date |-> t.due_date]
       ELSE withPriority

RequiredKeys == {"title", "id", "completed", "created_at"}

get(data, key) == IF key \in DOMAIN data THEN data[key] ELSE None

(* Variant of from_dict with a plausible slip: completed is left as the    *)
(* constructor set it.                                                     *)
from_dict_not_completed(data) ==
    [id |-> data["id"], title |-> data["title"], completed |-> FALSE,
     created_at |-> data["created_at"],
     priority |-> get(data, "priority"), due_date |-> get(data, "due_date"),
     tags |-> IF "tags" \in DOMAIN data THEN data["tags"] ELSE <<>>]

from_dict(data) ==
    [id |-> data["id"], title |-> data["title"], completed |-> data["completed"],
     created_at |-> data["created_at"],
     priority |-> get(data, "priority"), due_date |-> get(data, "due_date"),
     tags |-> IF "tags" \in DOMAIN data THEN data["tags"] ELSE <<>>]

(* --------------------------- text helpers ------------------------------ *)

RECURSIVE str(_)
str(n) == IF n < 10 THEN <<n>> ELSE Append(str(n \div 10), n % 10)

RECURSIVE join(_)
join(tags) ==
    IF Len(tags) = 0 THEN <<>>
    ELSE IF Len(tags) = 1 THEN tags[1]
    ELSE tags[1] \o <<",">> \o join(Tail(tags))

RECURSIVE split(_)
split(s) ==
    IF \E i \in 1..Len(s) : s[i] = ","
    THEN LET i == CHOOSE k \in 1..Len(s) :
                      s[k] = "," /\ \A j \in 1..(k - 1) : s[j] # ","
         IN <<SubSeq(s, 1, i - 1)>> \o split(SubSeq(s, i + 1, Len(s)))
    ELSE <<s>>

RECURSIVE strip(_)
strip(s) ==
    IF Len(s) > 0 /\ s[1] = " " THEN strip(Tail(s))
    ELSE IF Len(s) > 0 /\ s[Len(s)] = " " THEN strip(SubSeq(s, 1, Len(s) - 1))
    ELSE s

(* ------------------------------ codecs --------------------------------- *)

JsonFile(ts) == [kind |-> "json", data |-> [i \in 1..Len(ts) |-> to_dict(ts[i])]]

CsvHeader == <<"ID", "Nazva", "Status", "Priorytet", "Termin vykonannia",
               "Stvoreno", "Tehy">>

CsvRow(t) ==
    <<str(t.id), t.title,
      IF t.completed THEN StatusDone ELSE StatusActive,
      IF Truthy(t.priority) THEN t.priority ELSE "",
      IF Truthy(t.due_date) THEN t.due_date ELSE "",
      t.created_at,
      join(t.tags)>>

CsvFile(ts) == [kind |-> "csv", data |-> <<CsvHeader>> \o [i \in 1..Len(ts) |-> CsvRow(ts[i])]]

JsonLine == <<"<json text>">>

ReaderRows(file) ==
    IF file.kind = "csv" THEN file.data
    ELSE <<JsonLine>> \o [i \in 1..Len(file.data) |-> JsonLine]

(* Variants of _generate_id with a plausible slip: count+1, and the lowest  *)
(* unused id.                                                              *)
generate_id_count(ts) == Len(ts) + 1

generate_id_gap(ts) == CHOOSE n \in 1..(Len(ts) + 1) :
                           n \notin Ids(ts) /\ \A k \in 1..(n - 1) : k \in Ids(ts)

_generate_id(ts) == IF Len(ts) = 0 THEN 1 ELSE Max(Ids(ts)) + 1

add_task(ts, title, priority, due_date, clock) ==
    Append(ts, [Task(title, priority, due_date, clock) EXCEPT !.id = _generate_id(ts)])

RECURSIVE add_tags(_, _)
add_tags(t, tagList) ==
    IF Len(tagList) = 0 THEN t
    ELSE add_tags(add_tag(t, strip(tagList[1])), Tail(tagList))

ImportRow(ts, row, clock) ==
    IF Len(row) >= 6
    THEN LET title == row[2]
             completed == row[3] = StatusDone
             priority == IF row[4] # "" THEN row[4] ELSE None
             due_date == IF row[5] # "" THEN row[5] ELSE None
             tagList == IF Len(row) > 6 /\ Len(row[7]) > 0 THEN split(row[7]) ELSE <<>>
             added == add_task(ts, title, priority, due_date, clock)
             task == added[Len(added)]
             marked == IF completed THEN mark_completed(task) ELSE task
         IN [added EXCEPT ![Len(added)] = add_tags(marked, tagList)]
    ELSE ts

RECURSIVE ImportRows(_, _, _)
ImportRows(ts, rows, clock) ==
    IF Len(rows) = 0 THEN [tasks |-> ts, ok |-> TRUE]
    ELSE IF rows[1] = ReadErr THEN [tasks |-> ts, ok |-> FALSE]
    ELSE ImportRows(ImportRow(ts, rows[1], clock), Tail(rows), clock)

ImportCsv(ts, file, clock) ==
    LET rows == ReaderRows(file)
    IN IF Len(rows) = 0 \/ rows[1] = ReadErr
       THEN [tasks |-> ts, ok |-> FALSE]
       ELSE ImportRows(ts, Tail(rows), clock)

Decodable(file) ==
    /\ file.kind = "json"
    /\ \A i \in 1..Len(file.data) : RequiredKeys \subseteq DOMAIN file.data[i]

(* Variants of ImportJson with a plausible slip: the ids of the file are   *)
(* kept, and next_id is never advanced.                                    *)
ImportJson_keep_ids(ts, file) ==
    IF Decodable(file)
    THEN [tasks |-> ts \o [i \in 1..Len(file.data) |-> from_dict(file.data[i])], ok |-> TRUE]
    ELSE [tasks |-> ts, ok |-> FALSE]

ImportJson_same_id(ts, file) ==
    IF Decodable(file)
    THEN [tasks |-> ts \o [i \in 1..Len(file.data) |->
                              [from_dict(file.data[i]) EXCEPT !.id = _generate_id(ts)]],
          ok |-> TRUE]
    ELSE [tasks |-> ts, ok |-> FALSE]

ImportJson(ts, file) ==
    IF Decodable(file)
    THEN LET next_id == _generate_id(ts)
             imported_tasks == [i \in 1..Len(file.data) |->
                                   [from_dict(file.data[i]) EXCEPT !.id = next_id + i - 1]]
         IN [tasks |-> ts \o imported_tasks, ok |-> TRUE]
    ELSE [tasks |-> ts, ok |-> FALSE]

Readable(path) == path \in DOMAIN files /\ files[path].kind # "none"

Writable(path) == path \in DOMAIN files

(* ----------------------- TaskManager operations ------------------------ *)
(* Each operation below is the whole method: the collection, the files,    *)
(* the value returned (ret), the call made (call) and the set of paths it  *)
(* opened. lastAdd, freed and written are history variables: the id        *)
(* returned by the latest add_task since the collection was last empty or  *)
(* replaced, the ids removed by delete_task, and for every path the        *)
(* operation that wrote the file together with the collection it wrote.    *)

NotWritten == [by |-> "none", coll |-> <<>>]

AddTask(title, priority, due_date) ==
    /\ tasks' = add_task(tasks, title, priority, due_date, now)
    /\ call' = <<"add_task", title, priority, due_date>>
    /\ ret' = tasks'[Len(tasks')]
    /\ opened' = {}
    /\ raised' = FALSE
    /\ lastAdd' = ret'.id
    /\ UNCHANGED <<files, now, freed, written>>

CompleteTask(task_id) ==
    /\ IF \E i \in 1..Len(tasks) : tasks[i].id = task_id
       THEN LET i == CHOOSE k \in 1..Len(tasks) :
                         tasks[k].id = task_id /\ \A j \in 1..(k - 1) : tasks[j].id # task_id
            IN /\ tasks' = [tasks EXCEPT ![i] = mark_completed(@)]
               /\ ret' = TRUE
       ELSE /\ tasks' = tasks
            /\ ret' = FALSE
    /\ call' = <<"complete_task", task_id>>
    /\ opened' = {}
    /\ raised' = FALSE
    /\ UNCHANGED <<files, now, lastAdd, freed, written>>

DeleteTask(task_id) ==
    /\ IF \E i \in 1..Len(tasks) : tasks[i].id = task_id
       THEN LET i == CHOOSE k \in 1..Len(tasks) :
                         tasks[k].id = task_id /\ \A j \in 1..(k - 1) : tasks[j].id # task_id
            IN /\ tasks' = SubSeq(tasks, 1, i - 1) \o SubSeq(tasks, i + 1, Len(tasks))
               /\ ret' = TRUE
               /\ freed' = freed \cup {task_id}
       ELSE /\ tasks' = tasks
            /\ ret' = FALSE
            /\ freed' = freed
    /\ lastAdd' = IF Len(tasks') = 0 THEN 0 ELSE lastAdd
    /\ call' = <<"delete_task", task_id>>
    /\ opened' = {}
    /\ raised' = FALSE
    /\ UNCHANGED <<files, now, written>>

LoadTasks ==
    /\ call' = <<"load_tasks">>
    /\ opened' = {filename}
    /\ IF files[filename].kind = "none"
       THEN /\ ret' = FALSE
            /\ raised' = FALSE
            /\ UNCHANGED <<tasks, lastAdd>>
       ELSE IF Decodable(files[filename])
       THEN /\ tasks' = [i \in 1..Len(files[filename].data) |->
                            from_dict(files[filename].data[i])]
            /\ ret' = TRUE
            /\ raised' = FALSE
            /\ lastAdd' = 0
       ELSE /\ ret' = None
            /\ raised' = TRUE
            /\ UNCHANGED <<tasks, lastAdd>>
    /\ UNCHANGED <<files, now, freed, written>>

SaveTasks ==
    /\ files' = [files EXCEPT ![filename] = JsonFile(tasks)]
    /\ written' = [written EXCEPT ![filename] = [by |-> "save", coll |-> tasks]]
    /\ call' = <<"save_tasks">>
    /\ ret' = None
    /\ opened' = {filename}
    /\ raised' = FALSE
    /\ UNCHANGED <<tasks, now, lastAdd, freed>>

(* Variant of ExportTasks with a plausible slip: the file is opened for    *)
(* writing before the format is looked at.                                 *)
ExportTasks_open_first(path, format) ==
    /\ call' = <<"export_tasks", path, format>>
    /\ opened' = {path}
    /\ raised' = FALSE
    /\ IF Writable(path)
       THEN /\ files' = [files EXCEPT ![path] =
                   IF lower(format) = "json" THEN JsonFile(tasks)
                   ELSE IF lower(format) = "csv" THEN CsvFile(tasks)
                   ELSE EmptyFile]
            /\ written' = [written EXCEPT ![path] =
                   [by |-> "export_" \o lower(format), coll |-> tasks]]
            /\ ret' = (lower(format) \in {"json", "csv"})
       ELSE /\ ret' = FALSE
            /\ UNCHANGED <<files, written>>
    /\ UNCHANGED <<tasks, now, lastAdd, freed>>

ExportTasks(path, format) ==
    /\ call' = <<"export_tasks", path, format>>
    /\ raised' = FALSE
    /\ IF lower(format) \in {"json", "csv"}
       THEN /\ opened' = {path}
            /\ IF Writable(path)
               THEN /\ files' = [files EXCEPT ![path] =
                           IF lower(format) = "json" THEN JsonFile(tasks) ELSE CsvFile(tasks)]
                    /\ written' = [written EXCEPT ![path] =
                           [by |-> "export_" \o lower(format), coll |-> tasks]]
                    /\ ret' = TRUE
               ELSE /\ ret' = FALSE
                    /\ UNCHANGED <<files, written>>
       ELSE /\ opened' = {}
            /\ ret' = FALSE
            /\ UNCHANGED <<files, written>>
    /\ UNCHANGED <<tasks, now, lastAdd, freed>>

ImportTasks(path, format) ==
    /\ call' = <<"import_tasks", path, format>>
    /\ raised' = FALSE
    /\ IF lower(format) \in {"json", "csv"}
       THEN /\ opened' = {path}
            /\ IF Readable(path)
               THEN LET done == IF lower(format) = "json"
                                THEN ImportJson(tasks, files[path])
                                ELSE ImportCsv(tasks, files[path], now)
                    IN /\ tasks' = done.tasks
                       /\ ret' = done.ok
               ELSE /\ ret' = FALSE
                    /\ tasks' = tasks
       ELSE /\ opened' = {}
            /\ ret' = FALSE
            /\ tasks' = tasks
    /\ UNCHANGED <<files, now, lastAdd, freed, written>>

(* ----------------------------- environment ----------------------------- *)

Tick ==
    /\ now < MaxClock
    /\ now' = now + 1
    /\ call' = <<"tick">>
    /\ ret' = None
    /\ opened' = {}
    /\ raised' = FALSE
    /\ UNCHANGED <<tasks, files, lastAdd, freed, written>>

PutFile(file) ==
    /\ files' = [files EXCEPT ![ExportPath] = file]
    /\ written' = [written EXCEPT ![ExportPath] = [by |-> "user", coll |-> <<>>]]
    /\ call' = <<"put_file">>
    /\ ret' = None
    /\ opened' = {}
    /\ raised' = FALSE
    /\ UNCHANGED <<tasks, now, lastAdd, freed>>

(* ------------------------------ inputs --------------------------------- *)

AddInputs == {<<"a", None, None>>, <<"b", High, "2099-01-01">>}

TaskIds == 1..4

Formats == {"json", "csv", "CSV", "xml"}

Paths == {ExportPath, BadPath}

UserJson ==
    [kind |-> "json",
     data |-> <<[id |-> 7, title |-> "j1", completed |-> FALSE, created_at |-> 0,
                 tags |-> <<>>],
                [id |-> 7, title |-> "j2", completed |-> TRUE, created_at |-> 0,
                 priority |-> Low]>>]

UserJsonNoTitle ==
    [kind |-> "json",
     data |-> <<[id |-> 1, title |-> "j1", completed |-> FALSE, created_at |-> 0,
                 tags |-> <<>>],
                [id |-> 2, completed |-> FALSE, created_at |-> 0, tags |-> <<>>]>>]

UserCsv ==
    [kind |-> "csv",
     data |-> <<CsvHeader,
                <<<<7>>, "c1", StatusDone, "", "", 0>>,
                <<<<8>>, "short", StatusActive>>,
                <<<<7>>, "c2", StatusActive, Medium, "2030-05-05", 0,
                  <<" ", "x", ",", "y", ",", "x">> >> >>]

UserCsvBroken ==
    [kind |-> "csv",
     data |-> <<CsvHeader,
                <<<<1>>, "c1", StatusActive, "", "", 0, <<>> >>,
                ReadErr,
                <<<<2>>, "c2", StatusActive, "", "", 0, <<>> >> >>]

UserFiles == {UserJson, UserJsonNoTitle, UserCsv, UserCsvBroken, EmptyFile}

(* --------------------------- specification ----------------------------- *)

Api ==
    /\ pc = "api"
    /\ nops < MaxOps
    /\ nops' = nops + 1
    /\ UNCHANGED cliVars

Init ==
    /\ tasks = <<>>
    /\ files = [p \in {filename, ExportPath} |-> NoFile]
    /\ now = 0
    /\ call = <<"init">>
    /\ ret = None
    /\ raised = FALSE
    /\ opened = {}
    /\ lastAdd = 0
    /\ freed = {}
    /\ written = [p \in {filename, ExportPath} |-> NotWritten]
    /\ nops = 0
    /\ pc = "api"
    /\ argv = <<>>
    /\ intr = FALSE

DoAdd == \E a \in AddInputs : AddTask(a[1], a[2], a[3]) /\ Api

DoComplete == \E id \in TaskIds : CompleteTask(id) /\ Api

DoDelete == \E id \in TaskIds : DeleteTask(id) /\ Api

DoLoad == LoadTasks /\ Api

DoSave == SaveTasks /\ Api

DoExport == \E p \in Paths, f \in Formats : ExportTasks(p, f) /\ Api

DoImport == \E p \in Paths, f \in Formats : ImportTasks(p, f) /\ Api

DoPutFile == \E file \in UserFiles : PutFile(file) /\ Api

DoTick == Tick /\ Api

Next ==
    \/ DoAdd
    \/ DoComplete
    \/ DoDelete
    \/ DoLoad
    \/ DoSave
    \/ DoExport
    \/ DoImport
    \/ DoPutFile
    \/ DoTick

Spec == Init /\ [][Next]_vars

(* ------------------------------- claims -------------------------------- *)

MaxId(ts) == IF Len(ts) = 0 THEN 0 ELSE Max(Ids(ts))

(* C1: after any sequence of add_task, delete_task, complete_task, JSON    *)
(* and CSV imports and loads of the file written by save_tasks, every id   *)
(* in the collection is an integer >= 1 and no two tasks share an id.      *)
C1_IdsPositiveUnique ==
    /\ \A i \in 1..Len(tasks) : tasks[i].id \in Nat /\ tasks[i].id >= 1
    /\ \A i, j \in 1..Len(tasks) : i # j => tasks[i].id # tasks[j].id

C1_Witness ==
    /\ call[1] = "import_tasks"
    /\ ret = TRUE
    /\ Len(tasks) >= 3
    /\ freed # {}

(* C2: add_task returns a task whose id is 1 on an empty collection and    *)
(* 1 + the largest id otherwise, appends it as the last element and leaves *)
(* the tasks already there, and their order, as they were.                 *)
C2_AddTask ==
    [][call'[1] = "add_task" =>
         /\ ret'.id = (IF Len(tasks) = 0 THEN 1 ELSE 1 + Max(Ids(tasks)))
         /\ Len(tasks') = Len(tasks) + 1
         /\ tasks'[Len(tasks')] = ret'
         /\ SubSeq(tasks', 1, Len(tasks)) = tasks]_vars

(* Add, Add, DeleteTask(1), Add: ids 1, 2, 3 were returned and the          *)
(* collection is [2, 3].                                                   *)
C2_Witness ==
    /\ call[1] = "add_task"
    /\ nops = 4
    /\ freed = {1}
    /\ ret.id = 3
    /\ [i \in 1..Len(tasks) |-> tasks[i].id] = <<2, 3>>

IsTaskRow(row) == Len(row) >= 6

TaskRowTitles(file, format) ==
    IF format = "json"
    THEN [i \in 1..Len(file.data) |-> file.data[i]["title"]]
    ELSE IF file.kind = "csv"
    THEN LET rows == SelectSeq(Tail(file.data), IsTaskRow)
         IN [i \in 1..Len(rows) |-> rows[i][2]]
    ELSE <<>>

C4_ImportAppends ==
    [][(call'[1] = "import_tasks" /\ ret' = TRUE) =>
         LET titles == TaskRowTitles(files[call'[2]], lower(call'[3]))
             k == Len(titles)
             n == Len(tasks)
             m == MaxId(tasks)
         IN /\ Len(tasks') = n + k
            /\ SubSeq(tasks', 1, n) = tasks
            /\ \A j \in 1..k : /\ tasks'[n + j].id = m + j
                               /\ tasks'[n + j].title = titles[j]]_vars

C4_Witness ==
    /\ call[1] = "import_tasks"
    /\ lower(call[3]) = "csv"
    /\ ret = TRUE
    /\ Len(tasks) = 3
    /\ tasks[1].title \in {"a", "b"}
    /\ tasks[2].title = "c1" /\ tasks[2].id = tasks[1].id + 1
    /\ tasks[3].title = "c2" /\ tasks[3].id = tasks[1].id + 2

(* C7: whenever import_tasks or export_tasks returns failure, the          *)
(* collection is exactly what it was before the call, also when the        *)
(* failure comes after rows of the file have been read and processed.      *)
C7_FailureKeepsCollection ==
    [][(call'[1] \in {"import_tasks", "export_tasks"} /\ ret' = FALSE) =>
         tasks' = tasks]_vars

(* C8: export_tasks or import_tasks with a format other than json or csv   *)
(* (compared case-insensitively) returns failure, opens no file, leaves    *)
(* every file as it was (none created, none modified) and leaves the       *)
(* collection unchanged.                                                   *)
C8_UnsupportedFormat ==
    [][(call'[1] \in {"import_tasks", "export_tasks"}
          /\ lower(call'[3]) \notin {"json", "csv"}) =>
         /\ ret' = FALSE
         /\ opened' = {}
         /\ files' = files
         /\ tasks' = tasks]_vars

C8_Witness ==
    /\ call = <<"export_tasks", ExportPath, "xml">>
    /\ ret = FALSE
    /\ files[ExportPath].kind = "none"
    /\ Len(tasks) > 0

(* ------------------------- queries and sorting ------------------------- *)
(* ord gives the characters of the strings that are compared: Python       *)
(* compares strings code point by code point.                              *)

ord(s) ==
    CASE s = "2024-01-15" -> <<50, 48, 50, 52, 45, 48, 49, 45, 49, 53>>
      [] s = "2024-02-01" -> <<50, 48, 50, 52, 45, 48, 50, 45, 48, 49>>
      [] s = "2030-05-05" -> <<50, 48, 51, 48, 45, 48, 53, 45, 48, 53>>
      [] s = "2099-01-01" -> <<50, 48, 57, 57, 45, 48, 49, 45, 48, 49>>
      [] s = "9999-99-99" -> <<57, 57, 57, 57, 45, 57, 57, 45, 57, 57>>
      [] s = "a" -> <<97>>
      [] s = "B" -> <<66>>
      [] s = "b" -> <<98>>
      [] s = "c" -> <<99>>
      [] s = "c1" -> <<99, 49>>
      [] s = "c2" -> <<99, 50>>
      [] s = "j1" -> <<106, 49>>
      [] s = "j2" -> <<106, 50>>
      [] s = "A" -> <<65>>

str_lower(cs) == [i \in 1..Len(cs) |-> IF cs[i] >= 65 /\ cs[i] <= 90 THEN cs[i] + 32 ELSE cs[i]]

RECURSIVE StrLess(_, _)
StrLess(a, b) ==
    IF Len(b) = 0 THEN FALSE
    ELSE IF Len(a) = 0 THEN TRUE
    ELSE IF a[1] # b[1] THEN a[1] < b[1]
    ELSE StrLess(Tail(a), Tail(b))

priority_order(p) ==
    CASE p = High -> 3
      [] p = Medium -> 2
      [] p = Low -> 1
      [] OTHER -> 0

SortKeys == {"id", "title", "priority", "due_date", "created_at"}

due_key(t) == IF Truthy(t.due_date) THEN t.due_date ELSE "9999-99-99"

KeyLess(by, t, u) ==
    CASE by = "id" -> t.id < u.id
      [] by = "title" -> StrLess(str_lower(ord(t.title)), str_lower(ord(u.title)))
      [] by = "priority" -> priority_order(t.priority) < priority_order(u.priority)
      [] by = "due_date" -> StrLess(ord(due_key(t)), ord(due_key(u)))
      [] by = "created_at" -> t.created_at < u.created_at

Reverse(s) == [i \in 1..Len(s) |-> s[Len(s) + 1 - i]]

(* Insertion after the last element that is not greater: a stable sort.    *)
Insert(by, sortedSeq, t) ==
    LET later == {i \in 1..Len(sortedSeq) : KeyLess(by, t, sortedSeq[i])}
        at == IF later = {} THEN Len(sortedSeq) + 1
              ELSE CHOOSE i \in later : \A j \in later : i <= j
    IN SubSeq(sortedSeq, 1, at - 1) \o <<t>> \o SubSeq(sortedSeq, at, Len(sortedSeq))

RECURSIVE StableSort(_, _)
StableSort(by, s) ==
    IF Len(s) = 0 THEN <<>>
    ELSE Insert(by, StableSort(by, SubSeq(s, 1, Len(s) - 1)), s[Len(s)])

(* sorted(..., reverse=True) reverses, sorts stably and reverses again.    *)
sorted(s, by, reverse) ==
    IF reverse THEN Reverse(StableSort(by, Reverse(s))) ELSE StableSort(by, s)

sort_tasks(ts, by, reverse) == IF by \in SortKeys THEN sorted(ts, by, reverse) ELSE ts

Quiet == UNCHANGED <<tasks, files, now, lastAdd, freed, written>>

SortTasks(arg, by, reverse) ==
    /\ call' = <<"sort_tasks", arg, by, reverse>>
    /\ ret' = sort_tasks(arg, by, reverse)
    /\ raised' = FALSE
    /\ opened' = {}
    /\ Quiet

(* status is None, "True" or "False" (the bool argument of list_tasks).    *)
ListTasks(status, priority) ==
    /\ call' = <<"list_tasks", status, priority>>
    /\ ret' = LET byStatus == IF status # None
                              THEN SelectSeq(tasks, LAMBDA t : t.completed = (status = "True"))
                              ELSE tasks
              IN IF Truthy(priority)
                 THEN SelectSeq(byStatus, LAMBDA t : t.priority = priority)
                 ELSE byStatus
    /\ raised' = FALSE
    /\ opened' = {}
    /\ Quiet

GetStatistics ==
    /\ call' = <<"get_statistics">>
    /\ ret' = LET total == Len(tasks)
                  completed == Cardinality({i \in 1..Len(tasks) : tasks[i].completed})
              IN [total |-> total, completed |-> completed, active |-> total - completed,
                  high_priority |-> Cardinality({i \in 1..Len(tasks) :
                      ~tasks[i].completed /\ tasks[i].priority = High})]
    /\ raised' = FALSE
    /\ opened' = {}
    /\ Quiet

NewManager ==
    /\ tasks' = <<>>
    /\ lastAdd' = 0
    /\ call' = <<"TaskManager">>
    /\ ret' = None
    /\ raised' = FALSE
    /\ opened' = {}
    /\ UNCHANGED <<files, now, freed, written>>

(* ------------------- specification of the codecs ----------------------- *)
(* A manager that holds any collection built from the sample tasks (ids in *)
(* insertion order; priority and due date absent, empty or set; tags with  *)
(* a comma or a leading blank), saved, exported, loaded and imported.      *)

Sample1 == [id |-> 1, title |-> "a", completed |-> FALSE, created_at |-> 0,
            priority |-> None, due_date |-> None, tags |-> <<>>]

Sample2 == [id |-> 2, title |-> "b", completed |-> TRUE, created_at |-> 0,
            priority |-> High, due_date |-> "2099-01-01", tags |-> <<<<"x">>, <<"y">>>>]

Sample3 == [id |-> 3, title |-> "c", completed |-> FALSE, created_at |-> 0,
            priority |-> "", due_date |-> "", tags |-> <<<<"p", ",", "q">>>>]

Sample4 == [id |-> 5, title |-> "a", completed |-> TRUE, created_at |-> 0,
            priority |-> Low, due_date |-> None, tags |-> <<<<" ", "z">>>>]

Samples == <<Sample1, Sample2, Sample3, Sample4>>

RECURSIVE Pick(_, _)
Pick(ts, keep) ==
    IF Len(ts) = 0 THEN <<>>
    ELSE IF Len(ts) \in keep
    THEN Append(Pick(SubSeq(ts, 1, Len(ts) - 1), keep), ts[Len(ts)])
    ELSE Pick(SubSeq(ts, 1, Len(ts) - 1), keep)

SampleCollections == {Pick(Samples, keep) : keep \in SUBSET (1..Len(Samples))}

InitCodec ==
    /\ tasks \in SampleCollections
    /\ files = [p \in {filename, ExportPath} |-> NoFile]
    /\ now = 0
    /\ call = <<"init">>
    /\ ret = None
    /\ raised = FALSE
    /\ opened = {}
    /\ lastAdd = 0
    /\ freed = {}
    /\ written = [p \in {filename, ExportPath} |-> NotWritten]
    /\ nops = 0
    /\ pc = "api"
    /\ argv = <<>>
    /\ intr = FALSE

DoNewManager == NewManager /\ Api

DoExportFile == \E f \in {"json", "csv"} : ExportTasks(ExportPath, f) /\ Api

DoImportFile == \E f \in {"json", "csv"} : ImportTasks(ExportPath, f) /\ Api

NextCodec ==
    \/ DoSave
    \/ DoLoad
    \/ DoNewManager
    \/ DoExportFile
    \/ DoImportFile
    \/ DoTick

SpecCodec == InitCodec /\ [][NextCodec]_vars

(* C5 as stated: load_tasks of the file save_tasks wrote yields the        *)
(* collection that was saved: as many tasks, in the same order, each with  *)
(* the same id, title, completed, created_at, priority, due_date and tags, *)
(* whatever values add_task accepts for priority and due_date.             *)
C5_JsonRoundTrip ==
    (call[1] = "load_tasks" /\ ~raised /\ ret = TRUE /\ written[filename].by = "save")
        => tasks = written[filename].coll

Absent(v) == IF Truthy(v) THEN v ELSE None

(* C5 as amended: the same, for priority and due_date absent or set to a   *)
(* non-empty string; an empty priority or due_date is read back as absent. *)
C5_JsonRoundTripNonEmpty ==
    (call[1] = "load_tasks" /\ ~raised /\ ret = TRUE /\ written[filename].by = "save")
        => LET C == written[filename].coll
           IN /\ Len(tasks) = Len(C)
              /\ \A i \in 1..Len(C) :
                    /\ tasks[i].id = C[i].id
                    /\ tasks[i].title = C[i].title
                    /\ tasks[i].completed = C[i].completed
                    /\ tasks[i].created_at = C[i].created_at
                    /\ tasks[i].tags = C[i].tags
                    /\ tasks[i].priority = Absent(C[i].priority)
                    /\ tasks[i].due_date = Absent(C[i].due_date)

C5_Witness ==
    /\ call[1] = "load_tasks"
    /\ ret = TRUE
    /\ written[filename].by = "save"
    /\ Len(tasks) = 4
    /\ tasks[2] = Sample2
    /\ written[filename].coll[3].priority = ""
    /\ tasks[3].priority = None

(* C6: export_tasks(path, csv) followed by import_tasks(path, csv) into an *)
(* empty manager yields as many tasks, in the same order, each with the    *)
(* same title, completed, priority, due_date, created_at and tags as the   *)
(* exported one; only the ids differ, renumbered from 1.                   *)
C6_CsvRoundTrip ==
    [][(/\ call'[1] = "import_tasks"
        /\ lower(call'[3]) = "csv"
        /\ ret' = TRUE
        /\ written[call'[2]].by = "export_csv"
        /\ Len(tasks) = 0) =>
         LET C == written[call'[2]].coll
         IN /\ Len(tasks') = Len(C)
            /\ \A i \in 1..Len(C) :
                  /\ tasks'[i].id = i
                  /\ tasks'[i].title = C[i].title
                  /\ tasks'[i].completed = C[i].completed
                  /\ tasks'[i].priority = C[i].priority
                  /\ tasks'[i].due_date = C[i].due_date
                  /\ tasks'[i].created_at = C[i].created_at
                  /\ tasks'[i].tags = C[i].tags]_vars

(* ------------------- specification of the queries ---------------------- *)
(* A manager that holds tasks with and without due dates; sort_tasks is    *)
(* given the collection itself or the same tasks in any other order.       *)

Sort1 == [id |-> 1, title |-> "B", completed |-> FALSE, created_at |-> 0,
          priority |-> None, due_date |-> None, tags |-> <<>>]

Sort2 == [id |-> 2, title |-> "a", completed |-> TRUE, created_at |-> 0,
          priority |-> High, due_date |-> "2024-02-01", tags |-> <<>>]

Sort3 == [id |-> 3, title |-> "c", completed |-> FALSE, created_at |-> 1,
          priority |-> Low, due_date |-> "2024-01-15", tags |-> <<>>]

Sort4 == [id |-> 4, title |-> "a", completed |-> FALSE, created_at |-> 1,
          priority |-> Medium, due_date |-> "", tags |-> <<>>]

SortSamples == <<Sort1, Sort2, Sort3, Sort4>>

SortCollections == {Pick(SortSamples, keep) : keep \in SUBSET (1..Len(SortSamples))}

Orders(ts) ==
    {[i \in 1..Len(ts) |-> ts[f[i]]] :
        f \in {g \in [1..Len(ts) -> 1..Len(ts)] : \A i, j \in 1..Len(ts) : i # j => g[i] # g[j]}}

InitQuery ==
    /\ tasks \in SortCollections
    /\ files = [p \in {filename, ExportPath} |-> NoFile]
    /\ now = 1
    /\ call = <<"init">>
    /\ ret = None
    /\ raised = FALSE
    /\ opened = {}
    /\ lastAdd = 0
    /\ freed = {}
    /\ written = [p \in {filename, ExportPath} |-> NotWritten]
    /\ nops = 0
    /\ pc = "api"
    /\ argv = <<>>
    /\ intr = FALSE

Query == pc = "api" /\ UNCHANGED <<nops, pc, argv, intr>>

DoSort ==
    \E arg \in Orders(tasks), by \in SortKeys \cup {"status"}, reverse \in BOOLEAN :
        SortTasks(arg, by, reverse) /\ Query

DoList ==
    \E status \in {None, "True", "False"}, priority \in {None, High} :
        ListTasks(status, priority) /\ Query

DoStatistics == GetStatistics /\ Query

NextQuery ==
    \/ DoSort
    \/ DoList
    \/ DoStatistics

SpecQuery == InitQuery /\ [][NextQuery]_vars

IsPermutation(a, b) ==
    /\ Len(a) = Len(b)
    /\ \E f \in [1..Len(a) -> 1..Len(a)] :
          /\ \A i, j \in 1..Len(a) : i # j => f[i] # f[j]
          /\ \A i \in 1..Len(a) : a[i] = b[f[i]]

(* C9: sort_tasks(by="due_date") returns a permutation of its input in     *)
(* which every task without a due date comes after every task that has    *)
(* one, for reverse=False and for reverse=True; the tasks with a due date  *)
(* are in ascending order of the date string, descending when reverse.     *)
C9_DueDateSort ==
    (call[1] = "sort_tasks" /\ call[3] = "due_date") =>
        /\ IsPermutation(ret, call[2])
        /\ \A i, j \in 1..Len(ret) :
              (~Truthy(ret[i].due_date) /\ Truthy(ret[j].due_date)) => j < i
        /\ \A i, j \in 1..Len(ret) :
              (i < j /\ Truthy(ret[i].due_date) /\ Truthy(ret[j].due_date)) =>
                  IF call[4]
                  THEN ~StrLess(ord(ret[i].due_date), ord(ret[j].due_date))
                  ELSE ~StrLess(ord(ret[j].due_date), ord(ret[i].due_date))

(* ------------------ specification of the completed flag --------------- *)
(* A manager that starts empty and is driven through add_task,             *)
(* complete_task, delete_task, import_tasks and the queries; load_tasks,   *)
(* which replaces the collection by the one of the backing file, is not    *)
(* among the operations.                                                   *)

MaxCalls == 5

(* x in s for two strings: s[k..k+len(x)-1] = x for some k.                *)
Contains(s, x) ==
    \E k \in 1..(Len(s) - Len(x) + 1) : SubSeq(s, k, k + Len(x) - 1) = x

search_tasks(keyword) ==
    IF keyword = "" THEN <<>>
    ELSE SelectSeq(tasks, LAMBDA t :
             Contains(str_lower(ord(t.title)), str_lower(ord(keyword))))

filter_by_tag(tag) ==
    SelectSeq(tasks, LAMBDA t : \E i \in 1..Len(t.tags) : t.tags[i] = tag)

SearchTasks(keyword) ==
    /\ call' = <<"search_tasks", keyword>>
    /\ ret' = search_tasks(keyword)
    /\ raised' = FALSE
    /\ opened' = {}
    /\ Quiet

FilterByTag(tag) ==
    /\ call' = <<"filter_by_tag", tag>>
    /\ ret' = filter_by_tag(tag)
    /\ raised' = FALSE
    /\ opened' = {}
    /\ Quiet

Call ==
    /\ pc = "api"
    /\ nops < MaxCalls
    /\ nops' = nops + 1
    /\ UNCHANGED cliVars

CallAdd == \E a \in AddInputs : AddTask(a[1], a[2], a[3]) /\ Call

CallComplete == \E id \in TaskIds : CompleteTask(id) /\ Call

CallDelete == \E id \in TaskIds : DeleteTask(id) /\ Call

CallImport == \E p \in Paths, f \in Formats : ImportTasks(p, f) /\ Call

CallPutFile == \E file \in UserFiles : PutFile(file) /\ Call

CallTick == Tick /\ Call

CallSort ==
    \E by \in SortKeys \cup {"status"}, reverse \in BOOLEAN :
        SortTasks(tasks, by, reverse) /\ Call

CallList ==
    \E status \in {None, "True", "False"}, priority \in {None, High} :
        ListTasks(status, priority) /\ Call

CallStatistics == GetStatistics /\ Call

CallSearch == \E keyword \in {"", "A", "c"} : SearchTasks(keyword) /\ Call

CallFilter == \E tag \in {<<"x">>, <<"z">>} : FilterByTag(tag) /\ Call

NextFlag ==
    \/ CallAdd
    \/ CallComplete
    \/ CallDelete
    \/ CallImport
    \/ CallPutFile
    \/ CallTick
    \/ CallSort
    \/ CallList
    \/ CallStatistics
    \/ CallSearch
    \/ CallFilter

SpecFlag == Init /\ [][NextFlag]_vars

(* C11: over add_task, complete_task, delete_task, import_tasks and the    *)
(* queries, a task that is completed and is still in the collection after  *)
(* the step (no step both removes an id and gives it to a new task) is     *)
(* still completed; complete_task on a task that is already completed      *)
(* returns True and changes neither the collection nor any file; and       *)
(* complete_task leaves every task with another id, the length and the     *)
(* order of the collection as they were.                                   *)
C11_CompletedOneWay ==
    [][/\ \A i \in 1..Len(tasks) :
             tasks[i].completed =>
                 \A j \in 1..Len(tasks') :
                     tasks'[j].id = tasks[i].id => tasks'[j].completed
       /\ call'[1] = "complete_task" =>
             /\ (\E i \in 1..Len(tasks) :
                     tasks[i].id = call'[2] /\ tasks[i].completed) =>
                    (ret' = TRUE /\ tasks' = tasks /\ files' = files)
             /\ Len(tasks') = Len(tasks)
             /\ \A i \in 1..Len(tasks) :
                    tasks[i].id # call'[2] => tasks'[i] = tasks[i]]_vars

(* A task made by add_task was completed by complete_task, the task before *)
(* it was then deleted, and the completed task is now the first one.       *)
C11_Witness ==
    /\ call = <<"delete_task", 1>>
    /\ ret = TRUE
    /\ Len(tasks) >= 1
    /\ tasks[1].id = 2
    /\ tasks[1].title \in {"a", "b"}
    /\ tasks[1].completed

(* ------------------------ the two front ends --------------------------- *)
(* pc is the position of the process: "main" before the arguments are      *)
(* looked at, "menu" at the prompt of run_cli, "try" at the start of the   *)
(* try block of main, "save_open" and "save_write" before and after        *)
(* save_tasks opens (and truncates) the file, "print" before the message   *)
(* that ends a command, "handler" in the except clause, and "done",        *)
(* "aborted" or "crashed" once the process has ended. argv is <<>> for the *)
(* interactive menu and <<command, arguments>> for a one-shot command.     *)

MaxMenu == 3

Cli == UNCHANGED <<nops, argv, intr>>

MainInteractive ==
    /\ pc = "main"
    /\ Len(argv) = 0
    /\ LoadTasks
    /\ pc' = IF raised' THEN "crashed" ELSE "menu"
    /\ Cli

MainOneShot ==
    /\ pc = "main"
    /\ Len(argv) > 0
    /\ LoadTasks
    /\ pc' = IF raised' THEN "crashed" ELSE "try"
    /\ Cli

CmdAdd ==
    /\ pc = "try"
    /\ argv[1] = "add"
    /\ AddTask(argv[2], argv[3], argv[4])
    /\ pc' = "save_open"
    /\ Cli

CmdList ==
    /\ pc = "try"
    /\ argv[1] = "list"
    /\ ListTasks(IF argv[2] = "completed" THEN "True"
                 ELSE IF argv[2] = "active" THEN "False" ELSE None, argv[3])
    /\ pc' = "print"
    /\ Cli

CmdComplete ==
    /\ pc = "try"
    /\ argv[1] = "complete"
    /\ CompleteTask(argv[2])
    /\ pc' = "save_open"
    /\ Cli

CmdDelete ==
    /\ pc = "try"
    /\ argv[1] = "delete"
    /\ DeleteTask(argv[2])
    /\ pc' = "save_open"
    /\ Cli

CmdStats ==
    /\ pc = "try"
    /\ argv[1] = "stats"
    /\ GetStatistics
    /\ pc' = "print"
    /\ Cli

(* save_tasks in two steps, so that an interrupt can fall between them:    *)
(* open(filename, 'w') leaves an empty file, json.dump then fills it.      *)
SaveOpen ==
    /\ pc = "save_open"
    /\ files' = [files EXCEPT ![filename] = EmptyFile]
    /\ written' = [written EXCEPT ![filename] = [by |-> "open", coll |-> <<>>]]
    /\ call' = <<"open", filename>>
    /\ ret' = None
    /\ raised' = FALSE
    /\ opened' = {filename}
    /\ pc' = "save_write"
    /\ UNCHANGED <<tasks, now, lastAdd, freed>>
    /\ Cli

SaveWrite ==
    /\ pc = "save_write"
    /\ SaveTasks
    /\ pc' = IF argv[1] = "add" THEN "print" ELSE "done"
    /\ Cli

PrintResult ==
    /\ pc = "print"
    /\ call' = <<"print">>
    /\ ret' = None
    /\ raised' = FALSE
    /\ opened' = {}
    /\ pc' = "done"
    /\ Quiet
    /\ Cli

Interrupt ==
    /\ pc \in {"try", "save_open", "save_write", "print"}
    /\ call' = <<"KeyboardInterrupt">>
    /\ ret' = None
    /\ raised' = TRUE
    /\ opened' = {}
    /\ intr' = TRUE
    /\ pc' = "handler"
    /\ Quiet
    /\ UNCHANGED <<nops, argv>>

(* Variant of Handler with a plausible slip: the except clause only prints. *)
Handler_no_save ==
    /\ pc = "handler"
    /\ call' = <<"print">>
    /\ ret' = None
    /\ raised' = FALSE
    /\ opened' = {}
    /\ pc' = "done"
    /\ Quiet
    /\ Cli

Handler ==
    /\ pc = "handler"
    /\ SaveTasks
    /\ pc' = "done"
    /\ Cli

Menu ==
    /\ pc = "menu"
    /\ nops < MaxMenu
    /\ nops' = nops + 1
    /\ UNCHANGED <<pc, argv, intr>>

MenuAddTask(title, priority, due_date, tags_input) ==
    /\ LET added == add_task(tasks, title,
                             IF priority # "" THEN priority ELSE None,
                             IF due_date # "" THEN due_date ELSE None, now)
           task == added[Len(added)]
       IN tasks' = [added EXCEPT ![Len(added)] =
                       IF Len(tags_input) > 0 THEN add_tags(task, split(tags_input)) ELSE task]
    /\ call' = <<"menu_add", title, priority, due_date, tags_input>>
    /\ ret' = tasks'[Len(tasks')]
    /\ raised' = FALSE
    /\ opened' = {}
    /\ lastAdd' = ret'.id
    /\ UNCHANGED <<files, now, freed, written>>

MenuAdd ==
    \E a \in {<<"a", "", "", <<>>>>, <<"b", High, "2099-01-01", <<"x", ",", " ", "y">>>>} :
        MenuAddTask(a[1], a[2], a[3], a[4]) /\ Menu

MenuShow == \E status \in {None, "True"} : ListTasks(status, None) /\ Menu

MenuComplete == \E id \in 1..2 : CompleteTask(id) /\ Menu

MenuDelete == \E id \in 1..2 : DeleteTask(id) /\ Menu

MenuStats == GetStatistics /\ Menu

MenuExport == \E f \in {"json", "xml"} : ExportTasks(ExportPath, f) /\ Menu

MenuImport == \E f \in {"json", "csv"} : ImportTasks(ExportPath, f) /\ Menu

MenuQuit ==
    /\ pc = "menu"
    /\ SaveTasks
    /\ pc' = "done"
    /\ Cli

MenuAbort ==
    /\ pc = "menu"
    /\ call' = <<"KeyboardInterrupt">>
    /\ ret' = None
    /\ raised' = TRUE
    /\ opened' = {}
    /\ pc' = "aborted"
    /\ Quiet
    /\ Cli

CliArgs ==
    {<<>>,
     <<"add", "a", None, None>>,
     <<"add", "b", High, "">>,
     <<"list", None, None>>,
     <<"list", "active", High>>,
     <<"complete", 1>>,
     <<"complete", 9>>,
     <<"delete", 2>>,
     <<"stats">>}

DiskCollections == {<<>>, <<Sample1>>, <<Sample1, Sample2>>, <<Sample2, Sample4>>}

InitCli ==
    /\ tasks = <<>>
    /\ \E c \in DiskCollections, exists \in BOOLEAN :
          /\ files = [p \in {filename, ExportPath} |->
                         IF p = filename /\ exists THEN JsonFile(c) ELSE NoFile]
          /\ written = [p \in {filename, ExportPath} |->
                         IF p = filename /\ exists THEN [by |-> "save", coll |-> c]
                         ELSE NotWritten]
    /\ now = 1
    /\ call = <<"init">>
    /\ ret = None
    /\ raised = FALSE
    /\ opened = {}
    /\ lastAdd = 0
    /\ freed = {}
    /\ nops = 0
    /\ pc = "main"
    /\ argv \in CliArgs
    /\ intr = FALSE

NextCli ==
    \/ MainInteractive
    \/ MainOneShot
    \/ CmdAdd
    \/ CmdList
    \/ CmdComplete
    \/ CmdDelete
    \/ CmdStats
    \/ SaveOpen
    \/ SaveWrite
    \/ PrintResult
    \/ Interrupt
    \/ Handler
    \/ MenuAdd
    \/ MenuShow
    \/ MenuComplete
    \/ MenuDelete
    \/ MenuStats
    \/ MenuExport
    \/ MenuImport
    \/ MenuQuit
    \/ MenuAbort

SpecCli == InitCli /\ [][NextCli]_vars

(* C10: when the process ends after quit was chosen in the menu, after a   *)
(* one-shot add, complete or delete command, or after an interrupt in a    *)
(* one-shot command (after the load), the backing file holds the           *)
(* collection that is in memory.                                           *)
C10_SavedAtExit ==
    (pc = "done" /\ (intr \/ Len(argv) = 0 \/ argv[1] \in {"add", "complete", "delete"}))
        => /\ files[filename].kind = "json"
           /\ files[filename].data = JsonFile(tasks).data

C10_Witness ==
    /\ pc = "done"
    /\ intr
    /\ Len(argv) > 0
    /\ argv[1] = "add"
    /\ Len(tasks) = 3
    /\ written[filename] = [by |-> "save", coll |-> tasks]

====
